---- MODULE Spec2Model ----
(***************************************************************************)
(* Model of the ProDownloader client (the Home component): the React       *)
(* state slots, the handlers fetchInfo / handleDownload / pollStatus, the  *)
(* timers they create and the requests they leave in flight.               *)
(*                                                                         *)
(* Every synchronous run of a handler (up to its next await, or from the   *)
(* resumption after an await to its end) is one atomic action: the state   *)
(* updates of one run are committed together.  Time is counted in units of *)
(* 1000 ms; a timer holds the number of units left before it fires.        *)
(***************************************************************************)
EXTENDS Integers, Sequences, FiniteSets, TLC

(***************************************************************************)
(* Bounds of the model                                                     *)
(***************************************************************************)
MaxJobs == 2        \* job ids the service hands out
MaxInflight == 2    \* status requests of one job that may be unanswered

(***************************************************************************)
(* Program constants                                                       *)
(***************************************************************************)
PollPeriod == 1         \* setInterval(..., 1000)
SettleDelay == 1        \* setTimeout(..., 1000)
DirectMaxHeight == 720  \* fmt.height <= 720

NULL == "null"              \* JavaScript null
UNDEFINED == "undefined"    \* a field that is absent
STARTING == "starting"      \* the placeholder handleDownload stores
NoHeight == 0 - 1           \* handleDownload(undefined): no height in the body
OFF == 0 - 1                \* a timer that does not exist (never set, or cleared)

JobId(n) == "job" \o ToString(n)
JobIds == {JobId(n) : n \in 1..MaxJobs}

(***************************************************************************)
(* Source URLs.  A URL is a sequence of lexical pieces, so that the        *)
(* pattern and trim() are computed on its structure.                       *)
(***************************************************************************)
U_EMPTY == << >>
U_WATCH == <<"https://", "www.", "youtube.com", "/", "watch?v=x">>
U_OTHER == <<"https://", "example.com", "/", "x">>
Urls == {U_EMPTY, U_WATCH, U_OTHER}

IsSpace(piece) == piece \in {" ", "\t"}

RECURSIVE TrimStart(_)
TrimStart(u) ==
    IF u # << >> /\ IsSpace(Head(u)) THEN TrimStart(Tail(u)) ELSE u

RECURSIVE TrimEnd(_)
TrimEnd(u) ==
    IF u # << >> /\ IsSpace(u[Len(u)]) THEN TrimEnd(SubSeq(u, 1, Len(u) - 1)) ELSE u

\* String.prototype.trim
Trim(u) == TrimEnd(TrimStart(u))

\* /^(https?:\/\/)?(www\.)?(youtube\.com|youtu\.?be)\/.+$/ .test(u)
YOUTUBE_REGEX(u) ==
    LET a == IF u # << >> /\ Head(u) \in {"https://", "http://"} THEN Tail(u) ELSE u
        b == IF a # << >> /\ Head(a) = "www." THEN Tail(a) ELSE a
    IN  /\ Len(b) >= 3
        /\ b[1] \in {"youtube.com", "youtu.be", "youtube"}
        /\ b[2] = "/"
        /\ \A i \in 3..Len(b) : b[i] # "\n"

(***************************************************************************)
(* Formats and catalogs (the payload of POST /info)                        *)
(***************************************************************************)
Kinds == {"video", "audio"}

Fmt(id, h, d) == [format_id |-> id, height |-> h, direct_url |-> d]

F480d == Fmt("18", 480, "https://cdn/18")
F1080 == Fmt("137", 1080, NULL)
FAudio == Fmt("140", 0, "https://cdn/140")

CatVideo == [title |-> "clip", formats |-> <<F480d, F1080>>]
CatAudio == [title |-> "clip", formats |-> <<FAudio>>]
Catalogs == {CatVideo, CatAudio}
NullInfo == [title |-> NULL, formats |-> << >>]    \* videoInfo === null

\* JavaScript truthiness of a direct_url value
Truthy(v) == v \notin {NULL, UNDEFINED, ""}

\* a threshold that leaves 720 itself out
classify_Strict(fmt, kind) ==
    IF /\ kind = "video"
       /\ fmt.height > 0
       /\ fmt.height < DirectMaxHeight
       /\ Truthy(fmt.direct_url)
    THEN [tag |-> "Direct", url |-> fmt.direct_url]
    ELSE [tag |-> "ServerRequired", url |-> NULL]

\* the branch of the download action button rendered for one format
classify(fmt, kind) ==
    IF /\ kind = "video"
       /\ fmt.height > 0
       /\ fmt.height <= DirectMaxHeight
       /\ Truthy(fmt.direct_url)
    THEN [tag |-> "Direct", url |-> fmt.direct_url]
    ELSE [tag |-> "ServerRequired", url |-> NULL]

(***************************************************************************)
(* Payloads of GET /status/{job_id}                                        *)
(***************************************************************************)
\* of queued, downloading, processing, completed, failed: one status that is not
\* terminal (the handler does not tell them apart) and the two terminal ones
Statuses == {"downloading", "completed", "failed"}
NoNumber == 0 - 1                   \* progress missing or not a number
ProgressValues == {NoNumber, 40}
\* data.phases is an object; it is held as its entries <<key, value>> in
\* enumeration order, and hasPhases tells whether the field is there at all
PhasePayload(l, s, p) == [label |-> l, status |-> s, progress |-> p]
PhasesA == << <<"download", PhasePayload("Fetch", "downloading", 50)>> >>
PhaseObjects == {PhasesA}
JobErrors == {"no audio stream"}

StatusPayloads ==
    { [status |-> s, progress |-> p, hasPhases |-> TRUE, phases |-> ph, error |-> e] :
        s \in Statuses \ {"failed"}, p \in ProgressValues,
        ph \in PhaseObjects, e \in {UNDEFINED} }
    \cup
    { [status |-> s, progress |-> p, hasPhases |-> FALSE, phases |-> << >>, error |-> e] :
        s \in Statuses \ {"failed"}, p \in ProgressValues, e \in {UNDEFINED} }
    \cup
    { [status |-> "failed", progress |-> p, hasPhases |-> TRUE, phases |-> ph, error |-> e] :
        p \in ProgressValues, ph \in PhaseObjects, e \in JobErrors }
    \cup
    { [status |-> "failed", progress |-> p, hasPhases |-> FALSE, phases |-> << >>, error |-> e] :
        p \in ProgressValues, e \in JobErrors }

\* Object.entries(data.phases).map(([key, value]) => ({key, label, status, progress}))
MapPhases(phases) ==
    [i \in 1..Len(phases) |->
        [key |-> phases[i][1],
         label |-> phases[i][2].label,
         status |-> phases[i][2].status,
         progress |-> phases[i][2].progress]]

(***************************************************************************)
(* Messages shown in the error slot                                        *)
(***************************************************************************)
MsgInvalidUrl == "Please enter a valid YouTube URL"
MsgInfoFailed == "Failed to fetch video info."
MsgStartFailed == "Failed to start download"
MsgLost == "Lost connection to server."
MsgFetchRejected == "Failed to fetch"      \* message of the TypeError fetch rejects with
InfoDetails == {UNDEFINED, "Video unavailable"}
\* the service's error text shown without the prefix
DownloadFailed_Bare(e) == e
\* `Download failed: ${data.error}`
DownloadFailed(e) == "Download failed: " \o e
\* `http://localhost:8000/file/${jobId}`
FileUrl(jobId) == "http://localhost:8000/file/" \o jobId

VARIABLES
    mounted,        \* the component is rendered: React has not unmounted it
    url,            \* useState("")
    downloadType,   \* useState('video')
    isValidUrl,     \* useState(true)
    loadingInfo,    \* useState(false)
    error,          \* useState(null)
    videoInfo,      \* useState(null)
    processingJob,  \* useState(null)
    jobStatus,      \* useState("")
    progress,       \* useState(0)
    phaseStates,    \* useState([])
    infoReqs,       \* POST /info requests awaiting their response, each with
                    \* the catalog that was shown when it was issued
    startReqs,      \* POST /download requests awaiting their response
    interval,       \* per job id: units until its setInterval timer fires, or OFF
    inflight,       \* per job id: GET /status requests awaiting their response
    settle,         \* per job id: pending setTimeout callbacks, by units left
    nextJob,        \* the service's job counter
    pollFailed,     \* job ids one of whose polls threw
    infoKind,       \* the type sent in the request that produced videoInfo
    lastEvent       \* the handler run that produced this state

reactState == <<mounted, url, downloadType, isValidUrl, loadingInfo, error, videoInfo,
                processingJob, jobStatus, progress, phaseStates>>
jobState == <<processingJob, jobStatus, progress, phaseStates>>
netState == <<infoReqs, startReqs, interval, inflight, settle, nextJob>>
history == <<pollFailed, infoKind, lastEvent>>
vars == <<reactState, netState, history>>

\* a handler run: its name, the job id or format id it is about, the outcome it
\* handled and the text or URL it used
Event(n, i, s, d) == [name |-> n, id |-> i, status |-> s, detail |-> d]

Init ==
    /\ mounted = TRUE
    /\ url = U_EMPTY
    /\ downloadType = "video"
    /\ isValidUrl = TRUE
    /\ loadingInfo = FALSE
    /\ error = NULL
    /\ videoInfo = NullInfo
    /\ processingJob = NULL
    /\ jobStatus = ""
    /\ progress = 0
    /\ phaseStates = << >>
    /\ infoReqs = << >>
    /\ startReqs = << >>
    /\ interval = [j \in JobIds |-> OFF]
    /\ inflight = [j \in JobIds |-> 0]
    /\ settle = [j \in JobIds |-> [t \in 0..SettleDelay |-> 0]]
    /\ nextJob = 1
    /\ pollFailed = {}
    /\ infoKind = NULL
    /\ lastEvent = Event("mount", NULL, "", "")

\* remove the i-th element of a sequence
RemoveAt(s, i) == SubSeq(s, 1, i - 1) \o SubSeq(s, i + 1, Len(s))

\* the attribute  disabled={loadingInfo || !!processingJob} ; a component that is
\* not rendered offers no control at all
inputDisabled == ~mounted \/ loadingInfo \/ processingJob # NULL

(***************************************************************************)
(* onChange of the URL input, followed by the effect on [url]              *)
(***************************************************************************)
SetUrl(u) ==
    /\ ~inputDisabled
    /\ u # url
    /\ url' = u
    /\ IF Trim(u) = << >>
       THEN /\ isValidUrl' = TRUE
            /\ error' = NULL
       ELSE /\ isValidUrl' = YOUTUBE_REGEX(u)
            /\ error' = IF YOUTUBE_REGEX(u) THEN NULL ELSE MsgInvalidUrl
    /\ lastEvent' = Event("setUrl", NULL, "", "")
    /\ UNCHANGED <<mounted, downloadType, loadingInfo, videoInfo, jobState, netState,
                   pollFailed, infoKind>>

(***************************************************************************)
(* The kind toggle buttons                                                 *)
(***************************************************************************)
SelectKind(k) ==
    /\ ~inputDisabled
    /\ downloadType' = k
    /\ videoInfo' = NullInfo
    /\ infoKind' = NULL
    /\ lastEvent' = Event("selectKind", NULL, "", "")
    /\ UNCHANGED <<mounted, url, isValidUrl, loadingInfo, error, jobState, netState,
                   pollFailed>>

(***************************************************************************)
(* fetchInfo, up to its await                                              *)
(***************************************************************************)
fetchInfo ==
    /\ ~(url = U_EMPTY \/ ~isValidUrl)
    /\ loadingInfo' = TRUE
    /\ error' = NULL
    /\ videoInfo' = NullInfo
    /\ processingJob' = NULL
    /\ infoReqs' = Append(infoReqs,
            [url |-> url, type |-> downloadType, shown |-> videoInfo])
    /\ infoKind' = NULL
    /\ lastEvent' = Event("fetchInfo", NULL, "", "")
    /\ UNCHANGED <<mounted, url, downloadType, isValidUrl, jobStatus, progress, phaseStates,
                   startReqs, interval, inflight, settle, nextJob,
                   pollFailed>>

\* the Analyze button: disabled={loadingInfo || !!processingJob || !url || !isValidUrl}
AnalyzeClick ==
    /\ ~(inputDisabled \/ url = U_EMPTY \/ ~isValidUrl)
    /\ fetchInfo

\* onKeyDown of the URL input: e.key === "Enter" && isValidUrl && fetchInfo()
InputEnter ==
    /\ ~inputDisabled
    /\ isValidUrl
    /\ fetchInfo

(***************************************************************************)
(* fetchInfo, from the response of POST /info to its end                   *)
(***************************************************************************)
InfoOutcomes ==
    { [kind |-> "ok", payload |-> c, detail |-> UNDEFINED] : c \in Catalogs }
    \cup { [kind |-> "notOk", payload |-> NullInfo, detail |-> d] : d \in InfoDetails }
    \cup { [kind |-> "rejected", payload |-> NullInfo, detail |-> UNDEFINED] }

\* an ok response whose formats are appended to the catalog shown before
InfoResponse_Accumulate(i, out) ==
    /\ i \in 1..Len(infoReqs)
    /\ infoReqs' = RemoveAt(infoReqs, i)
    /\ loadingInfo' = FALSE
    /\ CASE out.kind = "ok" ->
              /\ videoInfo' = [title |-> out.payload.title,
                               formats |-> infoReqs[i].shown.formats \o out.payload.formats]
              /\ infoKind' = infoReqs[i].type
              /\ UNCHANGED error
         [] out.kind = "notOk" ->
              /\ error' = IF Truthy(out.detail) THEN out.detail ELSE MsgInfoFailed
              /\ UNCHANGED <<videoInfo, infoKind>>
         [] out.kind = "rejected" ->
              /\ error' = MsgFetchRejected
              /\ UNCHANGED <<videoInfo, infoKind>>
    /\ lastEvent' = Event("infoResponse",
                          IF out.kind = "ok" /\ out.payload = infoReqs[i].shown
                          THEN "repeat" ELSE NULL,
                          out.kind, "")
    /\ UNCHANGED <<mounted, url, downloadType, isValidUrl, jobState,
                   startReqs, interval, inflight, settle, nextJob,
                   pollFailed>>

InfoResponse(i, out) ==
    /\ i \in 1..Len(infoReqs)
    /\ infoReqs' = RemoveAt(infoReqs, i)
    /\ loadingInfo' = FALSE
    /\ CASE out.kind = "ok" ->
              /\ videoInfo' = out.payload
              /\ infoKind' = infoReqs[i].type
              /\ UNCHANGED error
         [] out.kind = "notOk" ->
              /\ error' = IF Truthy(out.detail) THEN out.detail ELSE MsgInfoFailed
              /\ UNCHANGED <<videoInfo, infoKind>>
         [] out.kind = "rejected" ->
              /\ error' = MsgFetchRejected
              /\ UNCHANGED <<videoInfo, infoKind>>
    /\ lastEvent' = Event("infoResponse",
                          IF out.kind = "ok" /\ out.payload = infoReqs[i].shown
                          THEN "repeat" ELSE NULL,
                          out.kind, "")
    /\ UNCHANGED <<mounted, url, downloadType, isValidUrl, jobState,
                   startReqs, interval, inflight, settle, nextJob,
                   pollFailed>>

(***************************************************************************)
(* handleDownload, up to its await                                         *)
(***************************************************************************)
handleDownload(height) ==
    IF url = U_EMPTY \/ videoInfo = NullInfo
    THEN UNCHANGED <<reactState, netState, pollFailed, infoKind>>
    ELSE /\ processingJob' = STARTING
         /\ jobStatus' = "queued"
         /\ progress' = 0
         /\ phaseStates' = << >>
         /\ error' = NULL
         /\ startReqs' = Append(startReqs,
                [url |-> url, height |-> height, type |-> downloadType])
         /\ UNCHANGED <<mounted, url, downloadType, isValidUrl, loadingInfo, videoInfo,
                        infoReqs, interval, inflight, settle, nextJob,
                        pollFailed, infoKind>>

\* a direct button that also goes through the job machine
DirectDownload_ViaJob(fmt) ==
    /\ lastEvent' = Event("click", fmt.format_id, "direct", fmt.direct_url)
    /\ processingJob' = STARTING
    /\ UNCHANGED <<mounted, url, downloadType, isValidUrl, loadingInfo, error, videoInfo,
                   jobStatus, progress, phaseStates, netState, pollFailed, infoKind>>

\* the "Direct Download" button: window.open(String(fmt.direct_url), ...)
DirectDownload(fmt) ==
    /\ lastEvent' = Event("click", fmt.format_id, "direct", fmt.direct_url)
    /\ UNCHANGED <<reactState, netState, pollFailed, infoKind>>

\* the results section is rendered when  videoInfo && !processingJob ;
\* each format row carries one of the two download action buttons
ClickFormat(i) ==
    /\ mounted
    /\ videoInfo # NullInfo
    /\ processingJob = NULL
    /\ i \in 1..Len(videoInfo.formats)
    /\ LET fmt == videoInfo.formats[i] IN
         IF classify(fmt, downloadType).tag = "Direct"
         THEN DirectDownload(fmt)
         ELSE /\ handleDownload(IF downloadType = "video" THEN fmt.height ELSE NoHeight)
              /\ lastEvent' = Event("click", fmt.format_id, "server", "")

(***************************************************************************)
(* pollStatus: creates the interval timer of one job                       *)
(***************************************************************************)
pollStatus(jobId) ==
    interval' = [interval EXCEPT ![jobId] = PollPeriod]

(***************************************************************************)
(* handleDownload, from the response of POST /download to its end          *)
(***************************************************************************)
StartOutcomes == {"ok", "notOk", "rejected"}

\* a catch block that leaves the "starting" placeholder in place
StartCatch_NoReset(message) ==
    /\ error' = message
    /\ UNCHANGED <<processingJob, interval, nextJob>>

\* catch (err) { setProcessingJob(null); setError(message); }
StartCatch(message) ==
    /\ processingJob' = NULL
    /\ error' = message
    /\ UNCHANGED <<interval, nextJob>>

StartResponse(i, out) ==
    /\ i \in 1..Len(startReqs)
    /\ startReqs' = RemoveAt(startReqs, i)
    /\ CASE out = "ok" ->
              /\ nextJob <= MaxJobs
              /\ processingJob' = JobId(nextJob)
              /\ pollStatus(JobId(nextJob))
              /\ nextJob' = nextJob + 1
              /\ lastEvent' = Event("startResponse", JobId(nextJob), "ok", "")
              /\ UNCHANGED error
         [] out = "notOk" ->
              /\ StartCatch(MsgStartFailed)
              /\ lastEvent' = Event("startResponse", NULL, "notOk", "")
         [] out = "rejected" ->
              /\ StartCatch(MsgFetchRejected)
              /\ lastEvent' = Event("startResponse", NULL, "rejected", "")
    /\ UNCHANGED <<mounted, url, downloadType, isValidUrl, loadingInfo, videoInfo,
                   jobStatus, progress, phaseStates,
                   infoReqs, inflight, settle,
                   pollFailed, infoKind>>

(***************************************************************************)
(* The interval callback of pollStatus, up to its await: one tick          *)
(***************************************************************************)
IntervalFire(jobId) ==
    /\ interval[jobId] = 0
    /\ inflight[jobId] < MaxInflight
    /\ interval' = [interval EXCEPT ![jobId] = PollPeriod]
    /\ inflight' = [inflight EXCEPT ![jobId] = @ + 1]
    /\ lastEvent' = Event("poll", jobId, "", "")
    /\ UNCHANGED <<reactState, infoReqs, startReqs, settle, nextJob,
                   pollFailed, infoKind>>

\* clearInterval(interval)
clearInterval(jobId) == [interval EXCEPT ![jobId] = OFF]

\* a hand-off scheduled with no delay
setTimeout_NoDelay(jobId) == [settle EXCEPT ![jobId][0] = @ + 1]

\* setTimeout(() => {...}, 1000)
setTimeout(jobId) == [settle EXCEPT ![jobId][SettleDelay] = @ + 1]

(***************************************************************************)
(* The interval callback, from a successful response to its end            *)
(***************************************************************************)
StatusResponse(jobId, data) ==
    /\ inflight[jobId] > 0
    /\ inflight' = [inflight EXCEPT ![jobId] = @ - 1]
    /\ jobStatus' = data.status
    /\ CASE data.status = "completed" ->
              /\ interval' = clearInterval(jobId)
              /\ progress' = 100
              /\ phaseStates' = IF data.hasPhases THEN MapPhases(data.phases)
                                ELSE phaseStates
              /\ settle' = setTimeout(jobId)
              /\ UNCHANGED <<processingJob, error>>
         [] data.status = "failed" ->
              /\ interval' = clearInterval(jobId)
              /\ progress' = IF data.progress # NoNumber THEN data.progress ELSE 0
              /\ processingJob' = NULL
              /\ error' = DownloadFailed(data.error)
              /\ phaseStates' = << >>
              /\ UNCHANGED settle
         [] OTHER ->
              /\ progress' = IF data.progress # NoNumber THEN data.progress ELSE 0
              /\ phaseStates' = IF data.hasPhases THEN MapPhases(data.phases)
                                ELSE phaseStates
              /\ UNCHANGED <<interval, settle, processingJob, error>>
    /\ lastEvent' = Event("status", jobId, data.status,
                          IF data.status = "failed" THEN data.error ELSE "")
    /\ UNCHANGED <<mounted, url, downloadType, isValidUrl, loadingInfo, videoInfo,
                   infoReqs, startReqs, nextJob,
                   pollFailed, infoKind>>

(***************************************************************************)
(* The interval callback, when fetch rejects or the response is not ok     *)
(***************************************************************************)
\* a catch block that forgets clearInterval
StatusLost_NoClear(jobId) ==
    /\ inflight[jobId] > 0
    /\ inflight' = [inflight EXCEPT ![jobId] = @ - 1]
    /\ processingJob' = NULL
    /\ error' = MsgLost
    /\ pollFailed' = pollFailed \cup {jobId}
    /\ lastEvent' = Event("statusLost", jobId, "", "")
    /\ UNCHANGED <<mounted, url, downloadType, isValidUrl, loadingInfo, videoInfo,
                   jobStatus, progress, phaseStates, interval,
                   infoReqs, startReqs, settle, nextJob, infoKind>>

StatusLost(jobId) ==
    /\ inflight[jobId] > 0
    /\ inflight' = [inflight EXCEPT ![jobId] = @ - 1]
    /\ interval' = clearInterval(jobId)
    /\ processingJob' = NULL
    /\ error' = MsgLost
    /\ pollFailed' = pollFailed \cup {jobId}
    /\ lastEvent' = Event("statusLost", jobId, "", "")
    /\ UNCHANGED <<mounted, url, downloadType, isValidUrl, loadingInfo, videoInfo,
                   jobStatus, progress, phaseStates,
                   infoReqs, startReqs, settle, nextJob,
                   infoKind>>

(***************************************************************************)
(* The setTimeout callback scheduled by a completed response               *)
(***************************************************************************)
SettleFire(jobId) ==
    /\ settle[jobId][0] > 0
    /\ settle' = [settle EXCEPT ![jobId][0] = @ - 1]
    /\ processingJob' = NULL
    /\ progress' = 0
    /\ phaseStates' = << >>
    /\ lastEvent' = Event("settle", jobId, "", FileUrl(jobId))
    /\ UNCHANGED <<mounted, url, downloadType, isValidUrl, loadingInfo, error, videoInfo,
                   jobStatus, infoReqs, startReqs, interval, inflight, nextJob,
                   pollFailed, infoKind>>

(***************************************************************************)
(* 1000 ms pass.  A timer that is due fires before time moves on.          *)
(***************************************************************************)
timerLive ==
    \E j \in JobIds : interval[j] # OFF \/ (\E t \in 0..SettleDelay : settle[j][t] > 0)

Tick ==
    /\ timerLive
    /\ \A j \in JobIds : interval[j] # 0 /\ settle[j][0] = 0
    /\ interval' = [j \in JobIds |-> IF interval[j] = OFF THEN OFF ELSE interval[j] - 1]
    /\ settle' = [j \in JobIds |->
                    [t \in 0..SettleDelay |->
                        IF t < SettleDelay THEN settle[j][t + 1] ELSE 0]]
    /\ lastEvent' = Event("tick", NULL, "", "")
    /\ UNCHANGED <<reactState, infoReqs, startReqs, inflight, nextJob,
                   pollFailed, infoKind>>

(***************************************************************************)
(* The consumer navigates away: React unmounts the component.  The         *)
(* component registers no cleanup (its only effect returns nothing), so    *)
(* timers and requests are left as they are; from here on the slots hold   *)
(* what the setters were last called with, and nothing renders them.       *)
(***************************************************************************)
Unmount ==
    /\ mounted
    /\ mounted' = FALSE
    /\ lastEvent' = Event("unmount", NULL, "", "")
    /\ UNCHANGED <<url, downloadType, isValidUrl, loadingInfo, error, videoInfo,
                   jobState, netState, pollFailed, infoKind>>

Next ==
    \/ \E u \in Urls : SetUrl(u)
    \/ \E k \in Kinds : SelectKind(k)
    \/ AnalyzeClick
    \/ InputEnter
    \/ \E i \in 1..Len(infoReqs), out \in InfoOutcomes : InfoResponse(i, out)
    \/ \E i \in 1..Len(videoInfo.formats) : ClickFormat(i)
    \/ \E i \in 1..Len(startReqs), out \in StartOutcomes : StartResponse(i, out)
    \/ \E j \in JobIds : IntervalFire(j)
    \/ \E j \in JobIds, data \in StatusPayloads : StatusResponse(j, data)
    \/ \E j \in JobIds : StatusLost(j)
    \/ \E j \in JobIds : SettleFire(j)
    \/ Tick
    \/ Unmount

Spec == Init /\ [][Next]_vars

(***************************************************************************)
(* The download action buttons alone: a catalog of one format, any height  *)
(* and any direct_url, has been resolved under either kind, and the format *)
(* is selected.                                                            *)
(***************************************************************************)
Heights == {0, 1, 360, 480, 720, 721, 1080, 2160}
DirectUrls == {UNDEFINED, NULL, "", "https://cdn/f"}
AllFormats == {Fmt("f", h, d) : h \in Heights, d \in DirectUrls}

InitClassify ==
    /\ mounted = TRUE
    /\ url = U_WATCH
    /\ downloadType \in Kinds
    /\ isValidUrl = TRUE
    /\ loadingInfo = FALSE
    /\ error = NULL
    /\ \E f \in AllFormats : videoInfo = [title |-> "clip", formats |-> <<f>>]
    /\ processingJob = NULL
    /\ jobStatus = ""
    /\ progress = 0
    /\ phaseStates = << >>
    /\ infoReqs = << >>
    /\ startReqs = << >>
    /\ interval = [j \in JobIds |-> OFF]
    /\ inflight = [j \in JobIds |-> 0]
    /\ settle = [j \in JobIds |-> [t \in 0..SettleDelay |-> 0]]
    /\ nextJob = 1
    /\ pollFailed = {}
    /\ infoKind = downloadType
    /\ lastEvent = Event("infoResponse", NULL, "ok", "")

NextClassify ==
    \E i \in 1..Len(videoInfo.formats) : ClickFormat(i)

SpecClassify == InitClassify /\ [][NextClassify]_vars

TypeOK ==
    /\ mounted \in BOOLEAN
    /\ url \in Urls
    /\ downloadType \in Kinds
    /\ isValidUrl \in BOOLEAN
    /\ loadingInfo \in BOOLEAN
    /\ videoInfo \in Catalogs \cup {NullInfo}
    /\ processingJob \in {NULL, STARTING} \cup JobIds
    /\ jobStatus \in Statuses \cup {"", "queued"}
    /\ progress \in 0..100
    /\ \A j \in JobIds : interval[j] \in OFF..PollPeriod /\ inflight[j] \in 0..MaxInflight

(***************************************************************************)
(* Notions the properties are stated in                                    *)
(***************************************************************************)
\* the job's interval timer exists: the job is being polled
Polled(j) == interval[j] # OFF

\* a completed response of the job has scheduled a hand-off that has not run yet
Settling(j) == \E t \in 0..SettleDelay : settle[j][t] > 0

\* a step that issues a status request of job j
IssuesPoll(j) == inflight'[j] > inflight[j]

\* a step in which a response (or the failure) of a status request of job j is handled
HandlesPoll(j) == inflight'[j] < inflight[j]

\* a step in which a settle callback of job j runs
RunsSettle(j) == settle'[j][0] < settle[j][0]

(***************************************************************************)
(* C1: at most one job is Starting (its start request is unanswered) or    *)
(* Active (its interval timer exists) at any time.                         *)
(***************************************************************************)
C1_AtMostOneJob ==
    Len(startReqs) + Cardinality({j \in JobIds : Polled(j)}) <= 1

(***************************************************************************)
(* C2: once a job's responses have ended with a completed one (its hand-off *)
(* is scheduled, none of its requests is unanswered, none of its polls has *)
(* thrown) and the progress is 100, the progress stays 100 until a settle  *)
(* callback runs.                                                          *)
(***************************************************************************)
C2_CompletedStays100 ==
    [][\A j \in JobIds :
          (/\ Settling(j)
           /\ inflight[j] = 0
           /\ j \notin pollFailed
           /\ progress = 100)
          => (progress' = 100 \/ lastEvent'.name = "settle")]_vars

C4_CompletedHandOff ==
    [][\A j \in JobIds :
          /\ (HandlesPoll(j) /\ lastEvent' = Event("status", j, "completed", ""))
                => /\ interval'[j] = OFF
                   /\ settle'[j][SettleDelay] = settle[j][SettleDelay] + 1
                   /\ settle'[j][0] = settle[j][0]
                   /\ progress' = 100
          /\ Settling(j) => ~IssuesPoll(j)
          /\ settle'[j][0] > settle[j][0] => lastEvent'.name = "tick"
          /\ RunsSettle(j)
                => /\ lastEvent' = Event("settle", j, "", "http://localhost:8000/file/" \o j)
                   /\ processingJob' = NULL
                   /\ progress' = 0
                   /\ phaseStates' = << >>]_vars

\* the hand-off of a job has just been performed
C4_Witness ==
    \E j \in JobIds :
        /\ lastEvent = Event("settle", j, "", "http://localhost:8000/file/" \o j)
        /\ jobStatus = "completed"
        /\ processingJob = NULL

(***************************************************************************)
(* C5: right after a response with status failed and error text E has been *)
(* handled, the job's interval timer is gone, the job id is null, the      *)
(* error slot reads "Download failed: E" and the phase list is empty.      *)
(***************************************************************************)
C5_FailedResponse ==
    \A j \in JobIds :
        lastEvent = Event("status", j, "failed", "no audio stream")
           => /\ interval[j] = OFF
              /\ processingJob = NULL
              /\ error = "Download failed: no audio stream"
              /\ phaseStates = << >>

\* a failed response has just been handled
C5_Witness ==
    \E j \in JobIds :
        /\ lastEvent = Event("status", j, "failed", "no audio stream")
        /\ jobStatus = "failed"
        /\ error = "Download failed: no audio stream"

(***************************************************************************)
(* C6: the step that handles a start-job response that is not ok leaves    *)
(* job id null and the error slot "Failed to start download", assigns no   *)
(* job id, creates no interval timer and issues no status request.         *)
(***************************************************************************)
C6_StartFailure ==
    [][(Len(startReqs') < Len(startReqs)
            /\ lastEvent' = Event("startResponse", NULL, "notOk", ""))
          => /\ processingJob' = NULL
             /\ error' = "Failed to start download"
             /\ interval' = interval
             /\ inflight' = inflight
             /\ nextJob' = nextJob]_vars

\* the only start attempt so far was refused: nothing is polled
C6_Witness ==
    /\ lastEvent = Event("startResponse", NULL, "notOk", "")
    /\ nextJob = 1
    /\ startReqs = << >>
    /\ \A j \in JobIds : ~Polled(j) /\ inflight[j] = 0

(***************************************************************************)
(* C7: every request to /info or /download that has been issued carries a  *)
(* source URL that matches the provider pattern.                           *)
(***************************************************************************)
C7_NoRequestForInvalidUrl ==
    /\ \A i \in 1..Len(infoReqs) : YOUTUBE_REGEX(infoReqs[i].url)
    /\ \A i \in 1..Len(startReqs) : YOUTUBE_REGEX(startReqs[i].url)

(***************************************************************************)
(* C8: selecting a format opens exactly its direct_url if and only if the  *)
(* kind is video, 0 < height <= 720 and direct_url is present (neither     *)
(* missing, null nor empty); in every other case it calls handleDownload,  *)
(* which issues one start request for that format.                         *)
(***************************************************************************)
C8_Classify ==
    lastEvent.name = "click" =>
        LET f == videoInfo.formats[1] IN
        IF /\ downloadType = "video"
           /\ 0 < f.height
           /\ f.height <= 720
           /\ f.direct_url \notin {UNDEFINED, NULL, ""}
        THEN /\ lastEvent = Event("click", f.format_id, "direct", f.direct_url)
             /\ startReqs = << >>
        ELSE /\ lastEvent = Event("click", f.format_id, "server", "")
             /\ startReqs = << [url |-> url,
                                height |-> IF downloadType = "video" THEN f.height ELSE NoHeight,
                                type |-> downloadType] >>

\* a 720p video format with a direct URL has been selected and opened
C8_Witness ==
    /\ lastEvent = Event("click", "f", "direct", "https://cdn/f")
    /\ videoInfo.formats[1].height = 720
    /\ downloadType = "video"

(***************************************************************************)
(* C9: the step that selects a format that is Direct by the rule of C8     *)
(* opens its direct URL and changes neither job id, status, progress nor   *)
(* phases, issues no start request and no status request, and creates no   *)
(* timer.                                                                  *)
(***************************************************************************)
C9_DirectBypassesJobs ==
    [][\A i \in 1..Len(videoInfo.formats) :
          LET f == videoInfo.formats[i] IN
          (/\ lastEvent'.name = "click"
           /\ lastEvent'.id = f.format_id
           /\ downloadType = "video"
           /\ 0 < f.height
           /\ f.height <= 720
           /\ f.direct_url \notin {UNDEFINED, NULL, ""})
          => /\ lastEvent' = Event("click", f.format_id, "direct", f.direct_url)
             /\ UNCHANGED <<processingJob, jobStatus, progress, phaseStates>>
             /\ UNCHANGED <<startReqs, interval, inflight, settle, nextJob>>]_vars

\* the 480p format with a direct URL has been opened and no job was ever started
C9_Witness ==
    /\ lastEvent = Event("click", "18", "direct", "https://cdn/18")
    /\ processingJob = NULL
    /\ nextJob = 1
    /\ startReqs = << >>

(***************************************************************************)
(* C10: the step that selects an output kind leaves no catalog and no job: *)
(* no job id is held, and no job of before the selection is Starting (its  *)
(* start request unanswered) or Active (its interval timer live).  A       *)
(* catalog that is present was resolved for the current kind.              *)
(***************************************************************************)
C10_KindSelectionLeavesNothing ==
    /\ videoInfo # NullInfo => infoKind = downloadType
    /\ lastEvent.name = "selectKind"
          => /\ videoInfo = NullInfo
             /\ processingJob = NULL
             /\ startReqs = << >>
             /\ \A j \in JobIds : ~Polled(j)

\* the part of C10 about the catalog alone
C10_CatalogInvalidated ==
    /\ videoInfo # NullInfo => infoKind = downloadType
    /\ lastEvent.name = "selectKind" => videoInfo = NullInfo /\ processingJob = NULL

(***************************************************************************)
(* C11: the step that selects an output kind while a catalog is loaded     *)
(* leaves the error slot null.                                             *)
(***************************************************************************)
C11_KindSelectionClearsError ==
    [][(videoInfo # NullInfo /\ lastEvent'.name = "selectKind")
          => error' = NULL]_vars

(***************************************************************************)
(* C12: in a state in which a job's polling is live (its interval timer    *)
(* exists), a step that selects an output kind changes neither the output  *)
(* kind nor the job id, status, progress and phases.                       *)
(***************************************************************************)
C12_KindSelectionBlockedWhilePolled ==
    [][((\E j \in JobIds : Polled(j)) /\ lastEvent'.name = "selectKind")
          => UNCHANGED <<downloadType, processingJob, jobStatus, progress,
                         phaseStates>>]_vars

(***************************************************************************)
(* C13: the step that handles an error outcome (a resolution that failed,  *)
(* a start that failed, a response with status failed, a poll that threw)  *)
(* leaves the loading flag false and no job id held; the step that handles *)
(* a failed start also leaves the catalog as it was and creates no job.    *)
(***************************************************************************)
ErrorOutcome(e) ==
    \/ e.name = "infoResponse" /\ e.status \in {"notOk", "rejected"}
    \/ e.name = "startResponse" /\ e.status \in {"notOk", "rejected"}
    \/ e.name = "status" /\ e.status = "failed"
    \/ e.name = "statusLost"

C13_ErrorLeavesReentrant ==
    [][/\ ErrorOutcome(lastEvent') => (loadingInfo' = FALSE /\ processingJob' = NULL)
       /\ (lastEvent'.name = "startResponse" /\ lastEvent'.status \in {"notOk", "rejected"})
             => (videoInfo' = videoInfo /\ nextJob' = nextJob /\ interval' = interval)]_vars

(***************************************************************************)
(* C14: the step that handles an ok response of POST /info leaves exactly  *)
(* one of the service's catalogs, resolved for the kind of the request;    *)
(* when the response is the catalog that was shown as the request was      *)
(* issued (the same source and kind resolved again, the same response),    *)
(* the catalog after the step is the catalog after the first resolution.   *)
(***************************************************************************)
C14_ResolveIdempotent ==
    [][\A i \in 1..Len(infoReqs) :
          (/\ infoReqs' = RemoveAt(infoReqs, i)
           /\ lastEvent'.name = "infoResponse"
           /\ lastEvent'.status = "ok")
          => /\ videoInfo' \in Catalogs
             /\ infoKind' = infoReqs[i].type
             /\ infoKind' = downloadType'
             /\ lastEvent'.id = "repeat" => videoInfo' = infoReqs[i].shown]_vars

\* the video catalog has been resolved again for the same URL and kind
C14_Witness ==
    /\ lastEvent = Event("infoResponse", "repeat", "ok", "")
    /\ videoInfo = CatVideo
    /\ url = U_WATCH
    /\ downloadType = "video"
    /\ infoKind = "video"

(***************************************************************************)
(* C15: at most one status request of a job is unanswered at any time.     *)
(***************************************************************************)
C15_OnePollInFlight ==
    \A j \in JobIds : inflight[j] <= 1

(***************************************************************************)
(* C16: no interval timer of a job exists right after a completed or a     *)
(* failed response of that job has been handled, nor once the component    *)
(* has been unmounted.                                                     *)
(***************************************************************************)
C16_TimerCancelledOnExit ==
    /\ \A j \in JobIds :
          (lastEvent.name = "status" /\ lastEvent.id = j
              /\ lastEvent.status \in {"completed", "failed"}) => ~Polled(j)
    /\ ~mounted => \A j \in JobIds : ~Polled(j)

(***************************************************************************)
(* C17: the step that enters Starting (handleDownload issues a start       *)
(* request) leaves progress 0, no phases and no error; and while the job   *)
(* id slot holds the placeholder or the id of a job, a step that handles a *)
(* poll response (or failure) or runs the settle callback of another job   *)
(* changes neither job id, status, progress, phases nor error.             *)
(***************************************************************************)
C17_NoLeakAcrossJobs ==
    [][/\ Len(startReqs') > Len(startReqs)
             => (processingJob' = STARTING /\ progress' = 0 /\ phaseStates' = << >> /\ error' = NULL)
       /\ \A j \in JobIds :
             (/\ processingJob \notin {NULL, j}
              /\ HandlesPoll(j) \/ RunsSettle(j))
             => UNCHANGED <<processingJob, jobStatus, progress, phaseStates, error>>]_vars

(***************************************************************************)
(* C18: after the step that handles a successful poll response that does   *)
(* not report failure, the phase list is exactly the mapped phase set of   *)
(* that response: empty when the response carries no phases field.         *)
(***************************************************************************)
C18_PhasesReplacedEachTick ==
    [][\A j \in JobIds, data \in StatusPayloads :
          (data.status # "failed" /\ StatusResponse(j, data))
          => phaseStates' = IF data.hasPhases THEN MapPhases(data.phases) ELSE << >>]_vars

(***************************************************************************)
(* C19: the step that handles a poll response of the job whose id is held, *)
(* and leaves it held, leaves the progress within 0..100 and not below the *)
(* value it had before the step.                                           *)
(***************************************************************************)
C19_ProgressMonotone ==
    [][\A j \in JobIds :
          (processingJob = j /\ processingJob' = j /\ HandlesPoll(j))
          => (progress' \in 0..100 /\ progress' >= progress)]_vars

(***************************************************************************)
(* C20: whenever no job id is held, the phase list is empty.               *)
(***************************************************************************)
C20_NoPhaseWithoutJob ==
    processingJob = NULL => phaseStates = << >>

(***************************************************************************)
(* C21: at most one request to /info is unanswered at any time; and right  *)
(* after fetchInfo has issued one, no catalog is held, no job id is held   *)
(* and no job is Starting (its start request unanswered) or Active (its    *)
(* interval timer live).                                                   *)
(***************************************************************************)
C21_ResolveSupersedes ==
    /\ Len(infoReqs) <= 1
    /\ lastEvent.name = "fetchInfo"
          => /\ videoInfo = NullInfo
             /\ processingJob = NULL
             /\ startReqs = << >>
             /\ \A j \in JobIds : ~Polled(j)

\* the part of C21 about the catalog and the requests to /info alone
C21_OneResolveAtATime ==
    /\ Len(infoReqs) <= 1
    /\ loadingInfo <=> infoReqs # << >>
    /\ loadingInfo => videoInfo = NullInfo
    /\ lastEvent.name = "fetchInfo" => (videoInfo = NullInfo /\ processingJob = NULL)

\* f[0] + ... + f[t]
RECURSIVE SumUpTo(_, _)
SumUpTo(f, t) == IF t < 0 THEN 0 ELSE f[t] + SumUpTo(f, t - 1)

\* the hand-offs of job j that are scheduled and have not run yet
PendingHandOffs(j) == SumUpTo(settle[j], SettleDelay)

(***************************************************************************)
(* C22: the hand-off of a job is scheduled at most once, so that never are *)
(* two hand-offs of one job scheduled and waiting to run.                  *)
(***************************************************************************)
C22_HandOffScheduledOnce ==
    \A j \in JobIds : PendingHandOffs(j) <= 1

(***************************************************************************)
(* C23: whenever the interval timer of some job exists or a status request *)
(* of some job is unanswered, a job id is held (so every control is        *)
(* disabled or hidden).                                                    *)
(***************************************************************************)
C23_PolledImpliesJobHeld ==
    (\E j \in JobIds : Polled(j) \/ inflight[j] > 0)
        => (processingJob # NULL /\ inputDisabled)

====
